---- MODULE Spec2Model ----
(***************************************************************************)
(* One pipeline run of the LLM code deployment service: the /api routes,   *)
(* processAppRequest (generate, stage, create repository, commit/push,     *)
(* enable Pages, notify) and submitEvaluation's retry protocol.            *)
(***************************************************************************)
EXTENDS Integers, Sequences, FiniteSets, TLC

\* ------------------------------------------------------------------ bounds

\* How many distinct values uuidv4().substring(0, 8) can take in the model.
NumSuffixes == 1

\* ------------------------------------------------------- program constants

maxRetries == 5
baseDelay == 1000
conflictStatus == 409
okStatus == 200

\* ------------------------------------------------------------ input domains

Suffixes == {"u" \o ToString(i) : i \in 1..NumSuffixes}
Tasks == {"calc"}
Rounds == {1, 2}
Endpoints == {"/api/", "/api/update"}

\* What the evaluation endpoint can do with one POST: answer with a status,
\* or not answer at all (connection refused, 30 s timeout).
PostOutcomes ==
    {[kind |-> "response", status |-> s] : s \in {200, 201, 500}}
        \cup {[kind |-> "transport", status |-> 0]}

\* Statuses the GitHub API can fail with.
CreateFailStatuses == {403, 0}
PagesFailStatuses == {conflictStatus, 404}

\* ------------------------------------------------------------ JS values

StrV(text) == [t |-> "string", text |-> text, entries |-> <<>>]
NullV == [t |-> "null", text |-> <<>>, entries |-> <<>>]
NumV == [t |-> "number", text |-> <<>>, entries |-> <<>>]
UndefinedV == [t |-> "undefined", text |-> <<>>, entries |-> <<>>]
\* A number with its value, and an array with its items.
IntV(n) == [t |-> "number", n |-> n, text |-> <<>>, entries |-> <<>>]
ArrV(items) == [t |-> "array", text |-> <<>>, entries |-> items]
\* A plain object: its own enumerable properties in insertion order.
ObjV(entries) == [t |-> "object", text |-> <<>>, entries |-> entries]

\* Error(message): messages are sequences of tokens.
Err(name, message) == [name |-> name, message |-> message]

\* String containment on token sequences.
Contains(msg, sub) ==
    \E i \in 1..(Len(msg) + 1) :
        /\ i + Len(sub) - 1 <= Len(msg)
        /\ SubSeq(msg, i, i + Len(sub) - 1) = sub

\* ------------------------------------------------------------ paths, disk

\* path.normalize on a path split at "/".
RECURSIVE Normalize(_)
Normalize(p) ==
    IF p = <<>> THEN <<>>
    ELSE LET h == Normalize(SubSeq(p, 1, Len(p) - 1))
             last == p[Len(p)]
         IN  IF last = ".." THEN (IF h = <<>> THEN <<>> ELSE SubSeq(h, 1, Len(h) - 1))
             ELSE IF last = "." THEN h
             ELSE Append(h, last)

PathJoin(a, b) == Normalize(a \o b)
Dirname(p) == SubSeq(p, 1, Len(p) - 1)
IsPrefix(p, q) == Len(p) <= Len(q) /\ SubSeq(q, 1, Len(p)) = p

\* Directory of services/appGenerator.js.
DirnameOfModule == <<"app", "src", "services">>

FsEnsureDir(d, p) == d \cup {SubSeq(p, 1, k) : k \in 1..Len(p)}
FsWriteFile(d, p) == d \cup {p}
FsRemove(d, p) == {q \in d : ~IsPrefix(p, q)}

\* ------------------------------------------------------------ generator

BriefText == "Create a simple calculator app"

createFallbackApp(brief, attachments) ==
    ObjV(<< <<(<<"index.html">>), StrV(<<"<p>Brief: ", brief, "</p>">> \o attachments)>>,
            <<(<<"style.css">>), StrV(<<"body {}">>)>>,
            <<(<<"script.js">>), StrV(<<"console.log">>)>>,
            <<(<<"README.md">>), StrV(<<"## Brief", brief>>)>>,
            <<(<<"LICENSE">>), StrV(<<"MIT License">>)>> >>)

\* Texts the model can answer with: json says whether JSON.parse accepts the
\* text, value is what it denotes.
LLMContents ==
    { [json |-> FALSE, value |-> NullV],
      [json |-> TRUE, value |-> NullV],
      [json |-> TRUE, value |-> NumV],
      [json |-> TRUE, value |-> ObjV(<<>>)],
      [json |-> TRUE, value |-> ObjV(<< <<(<<"index.html">>), StrV(<<"<h1>">>)>> >>)],
      [json |-> TRUE, value |-> ObjV(<< <<(<<"index.html">>), ObjV(<<>>)>> >>)],
      [json |-> TRUE, value |-> ObjV(<< <<(<<"..", "..", "evil.js">>), StrV(<<"x">>)>> >>)],
      [json |-> TRUE,
       value |-> ObjV(<< <<(<<"index.html">>), StrV(<<"<h1>">>)>>,
                         <<(<<"style.css">>), StrV(<<"h1 {}">>)>>,
                         <<(<<"script.js">>), StrV(<<"main()">>)>>,
                         <<(<<"README.md">>), StrV(<<"# App">>)>>,
                         <<(<<"LICENSE">>), StrV(<<"MIT">>)>>,
                         <<(<<"assets", "app.js">>), StrV(<<"x">>)>> >>)] }

\* What the chat completion call does: raise, or answer with a text.
LLMOutcomes ==
    {[kind |-> "raise", content |-> [json |-> FALSE, value |-> NullV]]}
        \cup {[kind |-> "content", content |-> c] : c \in LLMContents}

\* JSON.parse: the value, or a SyntaxError.
JSONParse(content) ==
    IF content.json THEN [ok |-> TRUE, value |-> content.value]
    ELSE [ok |-> FALSE, value |-> UndefinedV]

\* generateAppWithLLM(brief, attachments, checks, isUpdate), given whether
\* getOpenAIClient() found a key and what the completion call did.
generateAppWithLLM(hasKey, llm, brief, attachments) ==
    IF ~hasKey THEN createFallbackApp(brief, attachments)
    ELSE IF llm.kind = "raise" THEN createFallbackApp(brief, attachments)
    ELSE LET parsed == JSONParse(llm.content)
         IN  IF parsed.ok THEN parsed.value
             ELSE createFallbackApp(brief, attachments)

\* ------------------------------------------------------------ configuration

\* process.env: which settings are present, and the deployment mode.
Envs ==
    [OPENAI_API_KEY : BOOLEAN, GITHUB_TOKEN : BOOLEAN, GITHUB_ORG : BOOLEAN,
     STUDENT_SECRET : BOOLEAN, NODE_ENV : {"development", "production"}]

Username == "student"
OrgName == "acme"

\* Validated request bodies (attachments defaulted to [] by the schema).
Requests ==
    [email : {"a@b.c"}, task : Tasks, round : Rounds, nonce : {"n-1"},
     brief : {BriefText}, evaluation_url : {"https://eval.example/notify"},
     attachments : {<<>>}]

\* ------------------------------------------------------------ request bodies

\* The characters of process.env.STUDENT_SECRET when it is configured.
ExpectedSecret == <<"k", "e", "y">>

\* The text of a string value.
RECURSIVE Concat(_)
Concat(tokens) ==
    IF tokens = <<>> THEN "" ELSE tokens[1] \o Concat(SubSeq(tokens, 2, Len(tokens)))
TextOf(v) == Concat(v.text)

\* A body that passes the secret check and the schema, for one round.
ValidBody(task, round) ==
    [secret |-> StrV(ExpectedSecret),
     email |-> StrV(<<"a", "@", "b.c">>),
     task |-> StrV(<<task>>),
     round |-> IntV(round),
     nonce |-> StrV(<<"n-1">>),
     brief |-> StrV(<<BriefText>>),
     checks |-> ArrV(<<StrV(<<"App loads successfully">>)>>),
     evaluation_url |-> StrV(<<"https://", "eval.example/notify">>),
     attachments |-> UndefinedV]

\* Values a client can send as secret, email, task and round: missing, of the
\* wrong form, or right.
SecretValues ==
    {UndefinedV, StrV(ExpectedSecret), StrV(<<"k", "e", "x">>), StrV(<<"k", "e">>),
     StrV(<<"k", "e", "y", "s">>)}
EmailValues == {UndefinedV, StrV(<<"invalid-email">>), StrV(<<"a", "@", "b.c">>)}
TaskValues == {UndefinedV} \cup {StrV(<<t>>) : t \in Tasks}
RoundValues == {UndefinedV, StrV(<<"1">>)} \cup {IntV(n) : n \in 0..3}

\* Bodies sent to POST /api/ and POST /api/update.
RawBodies ==
    {[ValidBody("calc", 1) EXCEPT !.secret = sv, !.email = ev, !.task = tv, !.round = rv] :
        sv \in SecretValues, ev \in EmailValues, tv \in TaskValues, rv \in RoundValues}

ValidEvaluation ==
    [email |-> StrV(<<"a", "@", "b.c">>),
     task |-> StrV(<<"calc">>),
     round |-> IntV(1),
     nonce |-> StrV(<<"n-1">>),
     repo_url |-> StrV(<<"https://", "github.com/user/repo">>),
     commit_sha |-> StrV(<<"abc123def456">>),
     pages_url |-> StrV(<<"https://", "user.github.io/repo/">>)]

\* Bodies sent to POST /evaluation/.
EvaluationBodies ==
    {[ValidEvaluation EXCEPT !.email = ev, !.round = rv, !.repo_url = uv] :
        ev \in EmailValues, rv \in RoundValues,
        uv \in {UndefinedV, StrV(<<"not a url">>), StrV(<<"https://", "github.com/user/repo">>)}}

\* ------------------------------------------------------------ validation

\* Joi.string().required(): a non-empty string.
IsStringV(v) == v.t = "string" /\ TextOf(v) # ""
\* Faulty variant: the schema forgets .email().
IsEmailV_AnyString(v) == IsStringV(v)

\* Joi.string().email(): local part, "@", domain.
IsEmailV(v) == IsStringV(v) /\ Len(v.text) = 3 /\ v.text[2] = "@"
\* Joi.string().uri(): a scheme, then the rest.
IsUriV(v) == IsStringV(v) /\ Len(v.text) >= 2 /\ v.text[1] \in {"http://", "https://"}
\* Joi.number() under the default convert option: a string of digits is
\* parsed to the number it spells.
ToNumberV(v) ==
    IF v.t = "string" /\ \E n \in 0..9 : v.text = <<ToString(n)>>
    THEN IntV(CHOOSE n \in 0..9 : v.text = <<ToString(n)>>)
    ELSE v

\* Faulty variant: the schema forgets .max(2).
IsRoundV_NoMax(v) == ToNumberV(v).t = "number" /\ ToNumberV(v).n >= 1

\* Joi.number().integer().min(1).max(2).required()
IsRoundV(v) ==
    ToNumberV(v).t = "number" /\ ToNumberV(v).n >= 1 /\ ToNumberV(v).n <= 2
\* Joi.array().items(Joi.string()).required()
IsStringArrayV(v) ==
    v.t = "array" /\ \A i \in 1..Len(v.entries) : IsStringV(v.entries[i])
\* Joi.array().items(Joi.object({name, url})).optional()
IsAttachmentsV(v) == v.t \in {"undefined", "array"}

NoRequest ==
    [email |-> "", task |-> "", round |-> 0, nonce |-> "", brief |-> "",
     evaluation_url |-> "", attachments |-> <<>>]

\* appRequestSchema.validate(req.body): the error flag and the value that
\* replaces req.body (attachments defaulted to []).
AppRequestSchemaValidate(b) ==
    IF /\ IsEmailV(b.email) /\ IsStringV(b.secret) /\ IsStringV(b.task)
       /\ IsRoundV(b.round) /\ IsStringV(b.nonce) /\ IsStringV(b.brief)
       /\ IsStringArrayV(b.checks) /\ IsUriV(b.evaluation_url)
       /\ IsAttachmentsV(b.attachments)
    THEN [error |-> FALSE,
          value |-> [email |-> TextOf(b.email), task |-> TextOf(b.task),
                     round |-> ToNumberV(b.round).n, nonce |-> TextOf(b.nonce),
                     brief |-> TextOf(b.brief),
                     evaluation_url |-> TextOf(b.evaluation_url),
                     attachments |-> IF b.attachments.t = "undefined" THEN <<>>
                                     ELSE b.attachments.entries]]
    ELSE [error |-> TRUE, value |-> NoRequest]

\* Faulty variant: repo_url is not required.
EvaluationSchemaError_NoRepoUrl(b) ==
    ~(/\ IsEmailV(b.email) /\ IsStringV(b.task) /\ IsRoundV(b.round)
      /\ IsStringV(b.nonce) /\ IsStringV(b.commit_sha) /\ IsUriV(b.pages_url))

\* evaluationRequestSchema.validate(req.body): the error flag.
EvaluationSchemaError(b) ==
    ~(/\ IsEmailV(b.email) /\ IsStringV(b.task) /\ IsRoundV(b.round)
      /\ IsStringV(b.nonce) /\ IsUriV(b.repo_url) /\ IsStringV(b.commit_sha)
      /\ IsUriV(b.pages_url))

\* ------------------------------------------------------------ verifySecret

\* Buffer.from(providedSecret, 'utf8') throws a TypeError unless it is given
\* a string (or a buffer).
BufferFromThrows(v) == v.t # "string"
\* crypto.timingSafeEqual throws a RangeError on inputs of different length.
TimingSafeEqualThrows(a, b) == Len(a) # Len(b)
TimingSafeEqual(a, b) == a = b

\* verifySecret(req, res, next): "next", a response status, or "throw".
VerifySecret(b, e) ==
    IF ~e.STUDENT_SECRET THEN [kind |-> "respond", status |-> 500]
    ELSE IF BufferFromThrows(b.secret) THEN [kind |-> "throw", status |-> 0]
    ELSE IF TimingSafeEqualThrows(b.secret.text, ExpectedSecret)
    THEN [kind |-> "throw", status |-> 0]
    ELSE IF ~TimingSafeEqual(b.secret.text, ExpectedSecret)
    THEN [kind |-> "respond", status |-> 401]
    ELSE [kind |-> "next", status |-> 0]

\* validateRequest(req, res, next): "next" with the validated body, or 400.
ValidateRequest(b) ==
    IF AppRequestSchemaValidate(b).error THEN [kind |-> "respond", status |-> 400]
    ELSE [kind |-> "next", status |-> 0]

\* What the application answers when a middleware throws: the error reaches
\* the framework's error handling, which answers 500.
UncaughtErrorResponse == [kind |-> "respond", status |-> 500]

\* The chain verifySecret, validateRequest in front of both /api routes.
ApiMiddleware(b, e) ==
    LET auth == VerifySecret(b, e)
    IN  IF auth.kind = "throw" THEN UncaughtErrorResponse
        ELSE IF auth.kind = "respond" THEN auth
        ELSE ValidateRequest(b)

\* ------------------------------------------------------------ state

VARIABLES
    env,        \* process.env
    endpoint,   \* route that received the request
    rawBody,    \* req.body as received
    req,        \* req.body after validation
    isUpdate,   \* processAppRequest's second argument
    pc,         \* where the run is
    repoName,   \* `${task}-${uuid8}`
    tempDir,    \* path of the workspace
    disk,       \* paths that exist on the filesystem
    tokenOnDisk,\* files whose content holds the GITHUB_TOKEN
    appFiles,   \* what generateAppWithLLM returned
    widx,       \* index of the next entry of appFiles to write
    remote,     \* the hosting provider: repositories, pushes, Pages
    calls,      \* how many times each external operation was invoked
    commitMsg,  \* message of the commit made in the workspace
    repoResult, \* createGitHubRepo's result
    pagesResult,\* deployToPages' result
    pagesReply, \* status the enable-Pages request was answered with (0: not sent)
    se,         \* submitEvaluation: loop variable, event log, last POST
    pending,    \* completion of processAppRequest's inner try block
    response,   \* HTTP response sent to the caller
    crun,       \* two runs at once: each run's position, names and loop index
    cdisk,      \* two runs at once: paths that exist on the filesystem
    cowner,     \* two runs at once: <<file, run that wrote it last>>
    cremote,    \* two runs at once: names of the repositories created
    clashes     \* two runs at once: accesses by one run to another run's files

runVars == <<env, endpoint, rawBody, req, isUpdate, pc, repoName, tempDir, disk,
             tokenOnDisk, appFiles,
             widx, remote, calls, commitMsg, repoResult, pagesResult, pagesReply, se,
             pending, response>>
concVars == <<crun, cdisk, cowner, cremote, clashes>>
vars == <<runVars, concVars>>

NoErr == Err("", <<>>)
NoResult == [repo_url |-> "", commit_sha |-> "", pages_url |-> "",
             evaluation_submitted |-> FALSE]
NoPending == [kind |-> "none", error |-> NoErr, value |-> NoResult]
Thrown(e) == [kind |-> "throw", error |-> e, value |-> NoResult]
Returned(v) == [kind |-> "return", error |-> NoErr, value |-> v]

NoRepoResult == [repoUrl |-> "", commitSha |-> "", cloneUrl |-> "", ownerLogin |-> ""]
NoPagesResult == [pagesUrl |-> "", enabled |-> FALSE]
NoPost == [kind |-> "none", status |-> 0]
NoResponse == [status |-> 0, body |-> "", error |-> <<>>, result |-> NoResult]

\* The provider before any run, and after an earlier round-1 run for task t
\* created, pushed and published its repository.
NoRemote == [repos |-> {}, pushed |-> {}, pages |-> {}]
Round1RepoOf(t) == t \o "-" \o "r1"
RemoteAfterRound1(t) ==
    [repos |-> {Round1RepoOf(t)}, pushed |-> {Round1RepoOf(t)},
     pages |-> {Round1RepoOf(t)}]

SeInit == [attempt |-> 0, log |-> <<>>, last |-> NoPost, rejected |-> 0,
           initError |-> <<>>, result |-> "none"]

\* The runs modelled by crun before they start.
RunIds == {1, 2}
NoRun == [pc |-> "start", repoName |-> "", tempDir |-> <<>>, widx |-> 0]
ConcIdle ==
    /\ crun = [i \in RunIds |-> NoRun]
    /\ cdisk = FsEnsureDir({}, DirnameOfModule)
    /\ cowner = {}
    /\ cremote = {}
    /\ clashes = {}

Init ==
    /\ ConcIdle
    /\ env \in Envs
    /\ endpoint = ""
    /\ rawBody = UndefinedV
    /\ req = NoRequest
    /\ isUpdate = FALSE
    /\ pc = "idle"
    /\ repoName = ""
    /\ tempDir = <<>>
    /\ disk = FsEnsureDir({}, DirnameOfModule)
    /\ tokenOnDisk = {}
    /\ appFiles = UndefinedV
    /\ widx = 0
    /\ remote \in {NoRemote} \cup {RemoteAfterRound1(t) : t \in Tasks}
    /\ calls = [llm |-> 0, create |-> 0, commit |-> 0, push |-> 0, pages |-> 0,
                post |-> 0, delete |-> 0]
    /\ commitMsg = ""
    /\ repoResult = NoRepoResult
    /\ pagesResult = NoPagesResult
    /\ pagesReply = 0
    /\ se = SeInit
    /\ pending = NoPending
    /\ response = NoResponse

\* ------------------------------------------------------------ routes

\* Faulty variant: the round check of the update route is missing.
UpdateRouteRejects_Never(round) == FALSE

\* router.post('/update'): only round 2 is served there.
UpdateRouteRejects(round) == round # 2

\* router.post('/') and router.post('/update') with their middleware, up to
\* the call of processAppRequest.
Receive(ep, b) ==
    /\ pc = "idle"
    /\ endpoint' = ep
    /\ rawBody' = b
    /\ LET mw == ApiMiddleware(b, env)
           value == AppRequestSchemaValidate(b).value
       IN  IF mw.kind = "respond"
           THEN /\ response' = [NoResponse EXCEPT !.status = mw.status, !.body = "error"]
                /\ pc' = "done"
                /\ UNCHANGED <<req, isUpdate>>
           ELSE IF ep = "/api/update" /\ UpdateRouteRejects(value.round)
           THEN /\ response' = [NoResponse EXCEPT !.status = 400, !.body = "error",
                                  !.error = <<"This endpoint is only for round 2 updates">>]
                /\ req' = value
                /\ pc' = "done"
                /\ isUpdate' = isUpdate
           ELSE /\ req' = value
                /\ isUpdate' = (ep = "/api/update")
                /\ pc' = "ensureDir"
                /\ response' = response
    /\ UNCHANGED <<concVars, env, tokenOnDisk, repoName, tempDir, disk, appFiles, widx, remote,
                   calls, commitMsg, repoResult, pagesResult, pagesReply, se, pending>>

\* router.post('/') of the evaluation router with validateEvaluationRequest:
\* the submission is logged and acknowledged.
ReceiveEvaluation(b) ==
    /\ pc = "idle"
    /\ endpoint' = "/evaluation/"
    /\ rawBody' = b
    /\ response' = IF EvaluationSchemaError(b)
                   THEN [NoResponse EXCEPT !.status = 400, !.body = "error"]
                   ELSE [NoResponse EXCEPT !.status = 200, !.body = "success"]
    /\ pc' = "done"
    /\ UNCHANGED <<concVars, env, req, isUpdate, tokenOnDisk, repoName, tempDir, disk, appFiles,
                   widx, remote, calls, commitMsg, repoResult, pagesResult, pagesReply,
                   se, pending>>

\* ------------------------------------------------------------ processAppRequest

RepoNameOf(task, suffix) == task \o "-" \o suffix
TempDirOf(name) == PathJoin(DirnameOfModule, <<"..", "temp", name>>)

\* repoName, tempDir, fs.ensureDir(tempDir): outside the inner try, so a
\* failure reaches the outer catch without passing the finally block.
EnsureTempDir(suffix, fsOk) ==
    /\ pc = "ensureDir"
    /\ repoName' = RepoNameOf(req.task, suffix)
    /\ tempDir' = TempDirOf(repoName')
    /\ IF fsOk
       THEN /\ disk' = FsEnsureDir(disk, tempDir')
            /\ pc' = "generate"
            /\ pending' = pending
       ELSE /\ disk' = disk
            /\ pc' = "respond"
            /\ pending' = Thrown(Err("Error", <<"EACCES: permission denied, mkdir">>))
    /\ UNCHANGED <<concVars, env, endpoint, rawBody, tokenOnDisk,
                   req, isUpdate, appFiles, widx, remote, calls,
                   commitMsg, repoResult, pagesResult, pagesReply, se, response>>

\* const appFiles = await generateAppWithLLM(brief, attachments, checks, isUpdate)
Generate(llm) ==
    /\ pc = "generate"
    /\ appFiles' = generateAppWithLLM(env.OPENAI_API_KEY, llm, req.brief, req.attachments)
    /\ calls' = IF env.OPENAI_API_KEY THEN [calls EXCEPT !.llm = @ + 1] ELSE calls
    /\ widx' = 1
    /\ pc' = "write"
    /\ UNCHANGED <<concVars, env, endpoint, rawBody, tokenOnDisk,
                   req, isUpdate, repoName, tempDir, disk, remote,
                   commitMsg, repoResult, pagesResult, pagesReply, se, pending, response>>

\* Object.entries(appFiles) throws on null and undefined.
EntriesThrows(v) == v.t \in {"null", "undefined"}
\* fs.writeFile accepts strings (and buffers) only.
WritableContent(c) == c.t = "string"

\* One iteration of the loop over Object.entries(appFiles), or its exit.
WriteFiles(fsOk) ==
    /\ pc = "write"
    /\ IF EntriesThrows(appFiles)
       THEN /\ pending' = Thrown(Err("TypeError", <<"Cannot convert undefined or null to object">>))
            /\ pc' = "finally"
            /\ UNCHANGED <<disk, widx>>
       ELSE IF widx > Len(appFiles.entries)
       THEN /\ pc' = "createRepo"
            /\ UNCHANGED <<disk, widx, pending>>
       ELSE LET filePath == appFiles.entries[widx][1]
                content == appFiles.entries[widx][2]
                fullPath == PathJoin(tempDir, filePath)
            IN  IF ~fsOk
                THEN /\ pending' = Thrown(Err("Error", <<"ENOSPC: no space left on device, write">>))
                     /\ pc' = "finally"
                     /\ UNCHANGED <<disk, widx>>
                ELSE IF ~WritableContent(content)
                THEN /\ disk' = FsEnsureDir(disk, Dirname(fullPath))
                     /\ pending' = Thrown(Err("TypeError", <<"The \"data\" argument must be of type string">>))
                     /\ pc' = "finally"
                     /\ widx' = widx
                ELSE /\ disk' = FsWriteFile(FsEnsureDir(disk, Dirname(fullPath)), fullPath)
                     /\ widx' = widx + 1
                     /\ UNCHANGED <<pc, pending>>
    /\ UNCHANGED <<concVars, env, endpoint, rawBody, tokenOnDisk,
                   req, isUpdate, repoName, tempDir, appFiles, remote,
                   calls, commitMsg, repoResult, pagesResult, pagesReply, se, response>>

\* ------------------------------------------------------------ createGitHubRepo

OwnerOf(e) == IF e.GITHUB_ORG THEN OrgName ELSE Username
HtmlUrlOf(owner, name) == "https://github.com/" \o owner \o "/" \o name
CloneUrlOf(owner, name) == HtmlUrlOf(owner, name) \o ".git"
StatusText(s) == IF s = 0 THEN "unknown" ELSE ToString(s)

CreateErrorOf(s) ==
    Err("Error", <<"Failed to create repository (status ", StatusText(s), "). ",
                   "Check that your token allows repo creation">>)

\* Faulty variant: a failed creation is logged and the function goes on.
CreateRepo_Swallow(ok, status) ==
    /\ pc = "createRepo"
    /\ calls' = [calls EXCEPT !.create = @ + 1]
    /\ remote' = IF ok THEN [remote EXCEPT !.repos = @ \cup {repoName}] ELSE remote
    /\ pc' = "gitCommit"
    /\ UNCHANGED <<concVars, env, endpoint, rawBody, tokenOnDisk,
                   req, isUpdate, repoName, tempDir, disk, appFiles,
                   widx, commitMsg, repoResult, pagesResult, pagesReply, se, pending,
                   response>>

\* octokit.rest.repos.createInOrg / createForAuthenticatedUser and its catch.
\* status 0 stands for an error that carries no status.
CreateRepo(ok, status) ==
    /\ pc = "createRepo"
    /\ calls' = [calls EXCEPT !.create = @ + 1]
    /\ IF ok
       THEN /\ remote' = [remote EXCEPT !.repos = @ \cup {repoName}]
            /\ pc' = "gitCommit"
            /\ pending' = pending
       ELSE /\ remote' = remote
            /\ pc' = "finally"
            /\ pending' = Thrown(CreateErrorOf(status))
    /\ UNCHANGED <<concVars, env, endpoint, rawBody, tokenOnDisk,
                   req, isUpdate, repoName, tempDir, disk, appFiles,
                   widx, commitMsg, repoResult, pagesResult, pagesReply, se, response>>

InitialCommitMessage == "Initial commit: Auto-generated application"
UpdateCommitMessage == "Update: Modified application"

\* git.init, addConfig, add('.'), commit, branch -M main: local git commands,
\* each of which can fail.
GitCommit(ok) ==
    /\ pc = "gitCommit"
    /\ IF ok
       THEN /\ disk' = FsEnsureDir(disk, PathJoin(tempDir, <<".git">>))
            /\ commitMsg' = InitialCommitMessage
            /\ calls' = [calls EXCEPT !.commit = @ + 1]
            /\ pc' = "push"
            /\ pending' = pending
       ELSE /\ pc' = "finally"
            /\ pending' = Thrown(Err("GitError", <<"git command failed">>))
            /\ UNCHANGED <<disk, commitMsg, calls>>
    /\ UNCHANGED <<concVars, env, endpoint, rawBody, tokenOnDisk,
                   req, isUpdate, repoName, tempDir, appFiles, widx,
                   remote, repoResult, pagesResult, pagesReply, se, response>>

ShaOf(name) == "sha-" \o name

\* git.addRemote('origin', authedRemote) stores the remote's URL, which
\* embeds the token, in the workspace's .git/config.
GitConfigOf(dir) == PathJoin(dir, <<".git", "config">>)

\* Faulty variant: a rejected push is logged and the function returns its
\* result all the same.
Push_IgnoresFailure(ok) ==
    /\ pc = "push"
    /\ IF ~env.GITHUB_TOKEN
       THEN /\ pc' = "finally"
            /\ pending' = Thrown(Err("Error", <<"GITHUB_TOKEN is not set. ",
                                                "Please configure it in your environment.">>))
            /\ UNCHANGED <<disk, tokenOnDisk, calls, remote, repoResult>>
       ELSE /\ disk' = FsWriteFile(disk, GitConfigOf(tempDir))
            /\ tokenOnDisk' = tokenOnDisk \cup {GitConfigOf(tempDir)}
            /\ calls' = [calls EXCEPT !.push = @ + 1]
            /\ remote' = IF ok THEN [remote EXCEPT !.pushed = @ \cup {repoName}] ELSE remote
            /\ repoResult' = [repoUrl |-> HtmlUrlOf(OwnerOf(env), repoName),
                              commitSha |-> ShaOf(repoName),
                              cloneUrl |-> CloneUrlOf(OwnerOf(env), repoName),
                              ownerLogin |-> OwnerOf(env)]
            /\ pc' = "pages"
            /\ pending' = pending
    /\ UNCHANGED <<concVars, env, endpoint, rawBody, req, isUpdate, repoName, tempDir, appFiles,
                   widx, commitMsg, pagesResult, pagesReply, se, response>>

\* The GITHUB_TOKEN check, git.addRemote, git.push, git.log and the result.
Push(ok) ==
    /\ pc = "push"
    /\ IF ~env.GITHUB_TOKEN
       THEN /\ pc' = "finally"
            /\ pending' = Thrown(Err("Error", <<"GITHUB_TOKEN is not set. ",
                                                "Please configure it in your environment.">>))
            /\ UNCHANGED <<disk, tokenOnDisk, calls, remote, repoResult>>
       ELSE /\ disk' = FsWriteFile(disk, GitConfigOf(tempDir))
            /\ tokenOnDisk' = tokenOnDisk \cup {GitConfigOf(tempDir)}
            /\ calls' = [calls EXCEPT !.push = @ + 1]
            /\ IF ok
               THEN /\ remote' = [remote EXCEPT !.pushed = @ \cup {repoName}]
                    /\ repoResult' = [repoUrl |-> HtmlUrlOf(OwnerOf(env), repoName),
                                      commitSha |-> ShaOf(repoName),
                                      cloneUrl |-> CloneUrlOf(OwnerOf(env), repoName),
                                      ownerLogin |-> OwnerOf(env)]
                    /\ pc' = "pages"
                    /\ pending' = pending
               ELSE /\ pc' = "finally"
                    /\ pending' = Thrown(Err("GitError", <<"push rejected">>))
                    /\ UNCHANGED <<remote, repoResult>>
    /\ UNCHANGED <<concVars, env, endpoint, rawBody, req, isUpdate, repoName, tempDir, appFiles,
                   widx, commitMsg, pagesResult, pagesReply, se, response>>

\* ------------------------------------------------------------ deployToPages

\* Faulty variant: every failure of the enable-Pages request is rethrown.
PagesErrorTolerated_None(status) == FALSE

\* Faulty variant: every failure of the enable-Pages request is swallowed.
PagesErrorTolerated_Any(status) == TRUE

\* if (pagesErr?.status !== 409) throw pagesErr
PagesErrorTolerated(status) == status = conflictStatus

PagesUrlOf(owner, name) == "https://" \o owner \o ".github.io/" \o name \o "/"

\* Faulty variant: a failed enable-Pages request is sent again.
DeployToPages_Retry(ok, status) ==
    /\ pc = "pages"
    /\ calls' = [calls EXCEPT !.pages = @ + 1]
    /\ remote' = IF ok THEN [remote EXCEPT !.pages = @ \cup {repoName}] ELSE remote
    /\ pagesReply' = IF ok THEN 201 ELSE status
    /\ IF ok \/ PagesErrorTolerated(status)
       THEN /\ pagesResult' = [pagesUrl |-> PagesUrlOf(repoResult.ownerLogin, repoName),
                               enabled |-> TRUE]
            /\ pc' = "post"
       ELSE /\ pagesResult' = pagesResult
            /\ pc' = "pages"
    /\ UNCHANGED <<concVars, env, endpoint, rawBody, tokenOnDisk,
                   req, isUpdate, repoName, tempDir, disk, appFiles,
                   widx, commitMsg, repoResult, se, pending, response>>

\* POST /repos/{owner}/{repo}/pages, its catch, the settling wait, the result.
DeployToPages(ok, status) ==
    /\ pc = "pages"
    /\ calls' = [calls EXCEPT !.pages = @ + 1]
    /\ remote' = IF ok THEN [remote EXCEPT !.pages = @ \cup {repoName}] ELSE remote
    /\ pagesReply' = IF ok THEN 201 ELSE status
    /\ IF ok \/ PagesErrorTolerated(status)
       THEN /\ pagesResult' = [pagesUrl |-> PagesUrlOf(repoResult.ownerLogin, repoName),
                               enabled |-> TRUE]
            /\ pc' = "post"
            /\ pending' = pending
       ELSE /\ pagesResult' = pagesResult
            /\ pc' = "finally"
            /\ pending' = Thrown(Err("HttpError", <<"pages request failed with status ",
                                                     StatusText(status)>>))
    /\ UNCHANGED <<concVars, env, endpoint, rawBody, tokenOnDisk,
                   req, isUpdate, repoName, tempDir, disk, appFiles,
                   widx, commitMsg, repoResult, se, response>>

\* ------------------------------------------------------------ submitEvaluation

\* axios rejects a response whose status is outside 2xx (its default
\* validateStatus) and every transport failure.
ValidateStatus(s) == s >= 200 /\ s < 300

AxiosPost(o) ==
    IF o.kind = "response" /\ ValidateStatus(o.status)
    THEN [resolved |-> TRUE, status |-> o.status, message |-> <<>>]
    ELSE [resolved |-> FALSE, status |-> o.status,
          message |-> IF o.kind = "response"
                      THEN <<"Request failed with status code ", ToString(o.status)>>
                      ELSE <<"timeout of 30000ms exceeded">>]

\* Faulty variant: the success check compares with 201.
IsOkStatus_Created(s) == s = 201

\* response.status === 200
IsOkStatus(s) == s = okStatus

RECURSIVE Pow2(_)
Pow2(n) == IF n <= 0 THEN 1 ELSE 2 * Pow2(n - 1)

\* Faulty variant: linear instead of exponential backoff.
RetryDelay_Linear(attempt) == baseDelay * attempt

\* const delay = baseDelay * Math.pow(2, attempt - 1)
RetryDelay(attempt) == baseDelay * Pow2(attempt - 1)

\* Faulty variant: the loop runs one iteration too many.
LoopContinues_OffByOne(attempt) == attempt <= maxRetries + 1

\* for (let attempt = 1; attempt <= maxRetries; attempt++)
LoopContinues(attempt) == attempt <= maxRetries

\* Faulty variant: the final error wraps the first attempt's message.
FinalError_FirstMessage(initMessage, retryMessage) ==
    Err("Error", <<"Failed to submit evaluation after ", ToString(maxRetries),
                   " attempts: ">> \o initMessage)

\* The error of the last retry's catch; initMessage is error.message of the
\* first attempt's catch, retryMessage is retryError.message.
FinalError(initMessage, retryMessage) ==
    Err("Error", <<"Failed to submit evaluation after ", ToString(maxRetries),
                   " attempts: ">> \o retryMessage)

\* Faulty variant: the whole evaluationData object is sent.
PayloadOf_WithEvaluationUrl(r, rr, pr) ==
    [email |-> r.email, task |-> r.task, round |-> r.round, nonce |-> r.nonce,
     repo_url |-> rr.repoUrl, commit_sha |-> rr.commitSha, pages_url |-> pr.pagesUrl,
     evaluation_url |-> r.evaluation_url]

\* The body sent with every POST.
PayloadOf(r, rr, pr) ==
    [email |-> r.email, task |-> r.task, round |-> r.round, nonce |-> r.nonce,
     repo_url |-> rr.repoUrl, commit_sha |-> rr.commitSha, pages_url |-> pr.pagesUrl]

\* Faulty variant: each retry stamps its number on the nonce.
PostEvent_CountsRetries(url, payload) ==
    [ev |-> "post", delay |-> 0, url |-> url,
     payload |-> [payload EXCEPT !.nonce = @ \o "#" \o ToString(se.attempt)]]

PostEvent(url, payload) == [ev |-> "post", delay |-> 0, url |-> url, payload |-> payload]
WaitEvent(d) == [ev |-> "wait", delay |-> d, url |-> "", payload |-> <<>>]

\* Faulty variant: the result is read with optional chaining
\* (evaluationResult?.success), so a missing outcome is returned as not
\* submitted.
AfterSubmit_OptionalChaining(evaluationResult) ==
    Returned([repo_url |-> repoResult.repoUrl,
              commit_sha |-> repoResult.commitSha,
              pages_url |-> pagesResult.pagesUrl,
              evaluation_submitted |-> evaluationResult = "success"])

\* processAppRequest after `await submitEvaluation(...)`: the returned object
\* reads evaluationResult.success, which throws when the result is undefined.
AfterSubmit(evaluationResult) ==
    IF evaluationResult = "undefined"
    THEN Thrown(Err("TypeError", <<"Cannot read properties of undefined (reading 'success')">>))
    ELSE Returned([repo_url |-> repoResult.repoUrl,
                   commit_sha |-> repoResult.commitSha,
                   pages_url |-> pagesResult.pagesUrl,
                   evaluation_submitted |-> TRUE])

\* The first attempt: the try block of submitEvaluation and the entry of its
\* catch block.
PostInitial(o) ==
    /\ pc = "post"
    /\ calls' = [calls EXCEPT !.post = @ + 1]
    /\ LET r == AxiosPost(o)
           log2 == Append(se.log, PostEvent(req.evaluation_url,
                                            PayloadOf(req, repoResult, pagesResult)))
       IN  IF r.resolved /\ IsOkStatus(r.status)
           THEN /\ se' = [se EXCEPT !.log = log2, !.last = o, !.result = "success"]
                /\ pending' = AfterSubmit("success")
                /\ pc' = "finally"
           ELSE /\ se' = [se EXCEPT !.log = log2, !.last = o, !.attempt = 1,
                            !.rejected = IF r.resolved THEN @ ELSE @ + 1,
                            !.initError =
                                IF r.resolved
                                THEN <<"Unexpected status code: ", ToString(r.status)>>
                                ELSE r.message]
                /\ pending' = pending
                /\ pc' = "retry"
    /\ UNCHANGED <<concVars, env, endpoint, rawBody, tokenOnDisk,
                   req, isUpdate, repoName, tempDir, disk, appFiles,
                   widx, remote, commitMsg, repoResult, pagesResult, pagesReply, response>>

\* One iteration of the retry loop: the wait, the POST, the status check, the
\* catch, and the loop's exit.
RetryPost(o) ==
    /\ pc = "retry"
    /\ calls' = [calls EXCEPT !.post = @ + 1]
    /\ LET r == AxiosPost(o)
           log2 == se.log \o <<WaitEvent(RetryDelay(se.attempt)),
                               PostEvent(req.evaluation_url,
                                         PayloadOf(req, repoResult, pagesResult))>>
       IN  IF r.resolved /\ IsOkStatus(r.status)
           THEN /\ se' = [se EXCEPT !.log = log2, !.last = o, !.result = "success"]
                /\ pending' = AfterSubmit("success")
                /\ pc' = "finally"
           ELSE IF ~r.resolved /\ se.attempt = maxRetries
           THEN /\ se' = [se EXCEPT !.log = log2, !.last = o, !.result = "threw",
                            !.rejected = @ + 1]
                /\ pending' = Thrown(FinalError(se.initError, r.message))
                /\ pc' = "finally"
           ELSE IF LoopContinues(se.attempt + 1)
           THEN /\ se' = [se EXCEPT !.log = log2, !.last = o, !.attempt = @ + 1,
                            !.rejected = IF r.resolved THEN @ ELSE @ + 1]
                /\ pending' = pending
                /\ pc' = "retry"
           ELSE /\ se' = [se EXCEPT !.log = log2, !.last = o, !.attempt = @ + 1,
                            !.result = "undefined"]
                /\ pending' = AfterSubmit("undefined")
                /\ pc' = "finally"
    /\ UNCHANGED <<concVars, env, endpoint, rawBody, tokenOnDisk,
                   req, isUpdate, repoName, tempDir, disk, appFiles,
                   widx, remote, commitMsg, repoResult, pagesResult, pagesReply, response>>

\* ------------------------------------------------------------ exit paths

\* Faulty variant: the workspace is removed after the try block instead of in
\* a finally block, so only when nothing was thrown.
Finally_OnlyOnSuccess ==
    /\ pc = "finally"
    /\ disk' = IF pending.kind = "return" THEN FsRemove(disk, tempDir) ELSE disk
    /\ tokenOnDisk' = tokenOnDisk \cap disk'
    /\ pc' = "respond"
    /\ UNCHANGED <<concVars, env, endpoint, rawBody, req, isUpdate, repoName, tempDir, appFiles, widx,
                   remote, calls, commitMsg, repoResult, pagesResult, pagesReply, se,
                   pending, response>>

\* Faulty variant: a failed run deletes the repository it created.
Finally_RollsBack ==
    /\ pc = "finally"
    /\ disk' = FsRemove(disk, tempDir)
    /\ tokenOnDisk' = tokenOnDisk \cap disk'
    /\ remote' = IF pending.kind = "throw" /\ repoName \in remote.repos
                 THEN [remote EXCEPT !.repos = @ \ {repoName}]
                 ELSE remote
    /\ calls' = IF pending.kind = "throw" /\ repoName \in remote.repos
                THEN [calls EXCEPT !.delete = @ + 1]
                ELSE calls
    /\ pc' = "respond"
    /\ UNCHANGED <<concVars, env, endpoint, rawBody, req, isUpdate, repoName, tempDir, appFiles, widx,
                   commitMsg, repoResult, pagesResult, pagesReply, se, pending,
                   response>>

\* finally { await fs.remove(tempDir) }, then the outer catch rethrows.
Finally ==
    /\ pc = "finally"
    /\ disk' = FsRemove(disk, tempDir)
    /\ tokenOnDisk' = tokenOnDisk \cap disk'
    /\ pc' = "respond"
    /\ UNCHANGED <<concVars, env, endpoint, rawBody, req, isUpdate, repoName, tempDir, appFiles, widx,
                   remote, calls, commitMsg, repoResult, pagesResult, pagesReply, se, pending,
                   response>>

\* Faulty variant: the detail is sent whatever the mode.
ErrorDetail_Always(mode, e) == e.message

\* error: NODE_ENV === 'development' ? error.message : 'Internal server error'
ErrorDetail(mode, e) ==
    IF mode = "development" THEN e.message ELSE <<"Internal server error">>

\* Faulty variant: the handler's catch block logs the error and sends nothing.
Respond_SilentOnError ==
    /\ pc = "respond"
    /\ pending.kind = "return"
    /\ response' = [status |-> 200, body |-> "success", error |-> <<>>,
                    result |-> pending.value]
    /\ pc' = "done"
    /\ UNCHANGED <<concVars, env, endpoint, rawBody, tokenOnDisk,
                   req, isUpdate, repoName, tempDir, disk, appFiles,
                   widx, remote, calls, commitMsg, repoResult, pagesResult, pagesReply, se,
                   pending>>

\* The route handler after processAppRequest: res.json(...) or its catch.
Respond ==
    /\ pc = "respond"
    /\ response' =
          IF pending.kind = "return"
          THEN [status |-> 200, body |-> "success", error |-> <<>>,
                result |-> pending.value]
          ELSE [status |-> 500, body |-> "error",
                error |-> ErrorDetail(env.NODE_ENV, pending.error),
                result |-> NoResult]
    /\ pc' = "done"
    /\ UNCHANGED <<concVars, env, endpoint, rawBody, tokenOnDisk,
                   req, isUpdate, repoName, tempDir, disk, appFiles,
                   widx, remote, calls, commitMsg, repoResult, pagesResult, pagesReply, se,
                   pending>>

\* ------------------------------------------------------------ specification

Next ==
    \/ \E ep \in Endpoints, b \in RawBodies : Receive(ep, b)
    \/ \E b \in EvaluationBodies : ReceiveEvaluation(b)
    \/ \E sfx \in Suffixes, fsOk \in BOOLEAN : EnsureTempDir(sfx, fsOk)
    \/ \E llm \in LLMOutcomes : Generate(llm)
    \/ \E fsOk \in BOOLEAN : WriteFiles(fsOk)
    \/ \E ok \in BOOLEAN, s \in CreateFailStatuses : CreateRepo(ok, s)
    \/ \E ok \in BOOLEAN : GitCommit(ok)
    \/ \E ok \in BOOLEAN : Push(ok)
    \/ \E ok \in BOOLEAN, s \in PagesFailStatuses : DeployToPages(ok, s)
    \/ \E o \in PostOutcomes : PostInitial(o)
    \/ \E o \in PostOutcomes : RetryPost(o)
    \/ Finally
    \/ Respond

Spec == Init /\ [][Next]_vars

\* Every awaited call settles: a step that can be taken is eventually taken.
LiveSpec == Spec /\ WF_vars(Next)

\* ------------------------------------------------------------ two runs at once

\* Two requests for the same task are in processAppRequest together; a step
\* is what one run does between two awaits. Both runs get the fallback app
\* (no OPENAI_API_KEY), whose paths are plain file names.
ConcEnv ==
    [OPENAI_API_KEY |-> FALSE, GITHUB_TOKEN |-> TRUE, GITHUB_ORG |-> FALSE,
     STUDENT_SECRET |-> TRUE, NODE_ENV |-> "production"]
ConcTask == "calc"
\* Values uuidv4().substring(0, 8) can take for each of the two runs.
ConcSuffixes == {"u1", "u2"}
ConcFiles == createFallbackApp(BriefText, <<>>).entries

ConcInit == Init /\ env = ConcEnv /\ remote = NoRemote

\* A run is in progress from the creation of its workspace to the end of its
\* finally block.
InProgress(i) == crun[i].pc \notin {"start", "done"}
Others(i) == {j \in RunIds \ {i} : InProgress(j)}
FilesOf(j) == {x[1] : x \in {y \in cowner : y[2] = j}}
Clash(op, i, j) == [op |-> op, by |-> i, of |-> j]

\* repoName, tempDir and fs.ensureDir(tempDir), which accepts a directory
\* that exists already.
CStart(i, suffix) ==
    /\ crun[i].pc = "start"
    /\ LET name == RepoNameOf(ConcTask, suffix)
       IN  /\ crun' = [crun EXCEPT ![i] = [pc |-> "generate", repoName |-> name,
                                           tempDir |-> TempDirOf(name), widx |-> 0]]
           /\ cdisk' = FsEnsureDir(cdisk, TempDirOf(name))
    /\ UNCHANGED <<runVars, cowner, cremote, clashes>>

\* await generateAppWithLLM(...)
CGenerate(i) ==
    /\ crun[i].pc = "generate"
    /\ crun' = [crun EXCEPT ![i].pc = "write", ![i].widx = 1]
    /\ UNCHANGED <<runVars, cdisk, cowner, cremote, clashes>>

\* One iteration of the write loop (fs.ensureDir of the file's directory,
\* fs.writeFile), or the loop's exit.
CWrite(i) ==
    /\ crun[i].pc = "write"
    /\ IF crun[i].widx > Len(ConcFiles)
       THEN /\ crun' = [crun EXCEPT ![i].pc = "createRepo"]
            /\ UNCHANGED <<cdisk, cowner, clashes>>
       ELSE LET fullPath == PathJoin(crun[i].tempDir, ConcFiles[crun[i].widx][1])
            IN  /\ cdisk' = FsWriteFile(FsEnsureDir(cdisk, Dirname(fullPath)), fullPath)
                /\ cowner' = {x \in cowner : x[1] # fullPath} \cup {<<fullPath, i>>}
                /\ clashes' = clashes \cup
                       {Clash("overwrite", i, j) : j \in {k \in Others(i) : fullPath \in FilesOf(k)}}
                /\ crun' = [crun EXCEPT ![i].widx = @ + 1]
    /\ UNCHANGED <<runVars, cremote>>

\* The create-repository call: the provider refuses a name that is taken.
CCreateRepo(i, ok) ==
    /\ crun[i].pc = "createRepo"
    /\ IF ok /\ crun[i].repoName \notin cremote
       THEN /\ cremote' = cremote \cup {crun[i].repoName}
            /\ crun' = [crun EXCEPT ![i].pc = "git"]
       ELSE /\ cremote' = cremote
            /\ crun' = [crun EXCEPT ![i].pc = "finally"]
    /\ UNCHANGED <<runVars, cdisk, cowner, clashes>>

\* git init, add('.'), commit, push in the workspace: add('.') reads every
\* file that is in the directory.
CGit(i, ok) ==
    /\ crun[i].pc = "git"
    /\ cdisk' = FsEnsureDir(cdisk, PathJoin(crun[i].tempDir, <<".git">>))
    /\ clashes' = clashes \cup
           {Clash("read", i, j) :
               j \in {k \in Others(i) :
                         \E f \in FilesOf(k) : IsPrefix(crun[i].tempDir, f)}}
    /\ crun' = [crun EXCEPT ![i].pc = IF ok THEN "pages" ELSE "finally"]
    /\ UNCHANGED <<runVars, cowner, cremote>>

\* await deployToPages(...)
CDeployToPages(i, ok) ==
    /\ crun[i].pc = "pages"
    /\ crun' = [crun EXCEPT ![i].pc = IF ok THEN "notify" ELSE "finally"]
    /\ UNCHANGED <<runVars, cdisk, cowner, cremote, clashes>>

\* await submitEvaluation(...): no file is touched, whatever its outcome.
CSubmitEvaluation(i) ==
    /\ crun[i].pc = "notify"
    /\ crun' = [crun EXCEPT ![i].pc = "finally"]
    /\ UNCHANGED <<runVars, cdisk, cowner, cremote, clashes>>

\* finally { await fs.remove(tempDir) }
CFinally(i) ==
    /\ crun[i].pc = "finally"
    /\ cdisk' = FsRemove(cdisk, crun[i].tempDir)
    /\ cowner' = {x \in cowner : x[1] \in cdisk'}
    /\ clashes' = clashes \cup
           {Clash("delete", i, j) :
               j \in {k \in Others(i) : IsPrefix(crun[i].tempDir, crun[k].tempDir)}}
    /\ crun' = [crun EXCEPT ![i].pc = "done"]
    /\ UNCHANGED <<runVars, cremote>>

ConcNext ==
    \/ \E i \in RunIds, sfx \in ConcSuffixes : CStart(i, sfx)
    \/ \E i \in RunIds : CGenerate(i)
    \/ \E i \in RunIds : CWrite(i)
    \/ \E i \in RunIds, ok \in BOOLEAN : CCreateRepo(i, ok)
    \/ \E i \in RunIds, ok \in BOOLEAN : CGit(i, ok)
    \/ \E i \in RunIds, ok \in BOOLEAN : CDeployToPages(i, ok)
    \/ \E i \in RunIds : CSubmitEvaluation(i)
    \/ \E i \in RunIds : CFinally(i)

ConcSpec == ConcInit /\ [][ConcNext]_vars

\* ------------------------------------------------------------ properties

Is2xx(o) == o.kind = "response" /\ o.status >= 200 /\ o.status < 300
Is200(o) == o.kind = "response" /\ o.status = 200
PostsBefore(log, i) == Cardinality({j \in 1..(i - 1) : log[j].ev = "post"})
PostCount(log) == PostsBefore(log, Len(log) + 1)
NotifyOver == pc \notin {"post", "retry"}

\* C1, as stated: an attempt answered with any 2xx status ends the protocol
\* with a successful outcome.
C1_AnySuccessStatusEnds ==
    Is2xx(se.last) => (se.result = "success" /\ NotifyOver)

\* C1, amended: an attempt (the first or a retry) answered with status 200
\* ends the protocol at that attempt with a successful outcome, and no POST is
\* sent afterwards.
C1_Status200Ends ==
    /\ [](Is200(se.last) =>
            /\ se.result = "success"
            /\ pending.kind = "return"
            /\ pending.value.evaluation_submitted
            /\ NotifyOver)
    /\ [][se.result = "success" => (calls'.post = calls.post /\ se' = se)]_vars

C1_Witness ==
    pc = "done" /\ Is200(se.last) /\ se.attempt >= 1 /\ se.result = "success"

\* C2: one call of submitEvaluation makes at most 6 POSTs (1 + 5 retries),
\* whatever the endpoint answers.
C2_AtMostSixPosts ==
    calls.post <= 6 /\ PostCount(se.log) = calls.post

C2_Witness == pc = "done" /\ calls.post = 6

\* C3: nothing is waited before the first POST, and exactly 1000 * 2^(n-1) ms
\* are waited immediately before the POST of retry n, for n in 1..5.
C3_BackoffDelays ==
    \A i \in 1..Len(se.log) :
        se.log[i].ev = "post" =>
            LET n == PostsBefore(se.log, i)
            IN  IF n = 0 THEN i = 1
                ELSE /\ n \in 1..5
                     /\ se.log[i - 1].ev = "wait"
                     /\ se.log[i - 1].delay = 1000 * 2^(n - 1)
                     /\ se.log[i - 1].delay = <<1000, 2000, 4000, 8000, 16000>>[n]
                     /\ se.log[i - 2].ev = "post"

C3_Witness == pc = "done" /\ Len(se.log) = 11 /\ se.log[10].delay = 16000

\* C4: when all 6 attempts fail (transport failure or a status outside 2xx),
\* submitEvaluation raises an error whose message contains the message of the
\* 6th attempt's failure, and does not return.
C4_ExhaustedRaisesLastFailure ==
    (calls.post = 6 /\ se.rejected = 6) =>
        /\ se.result = "threw"
        /\ pending.kind = "throw"
        /\ Contains(pending.error.message, AxiosPost(se.last).message)
        /\ Contains(pending.error.message, <<"Failed to submit evaluation after ">>)

C4_Witness ==
    /\ pc = "done" /\ calls.post = 6 /\ se.rejected = 6
    /\ se.initError # AxiosPost(se.last).message

\* C5: when the repository was pushed and Pages enabled but every notification
\* attempt failed, the caller's response carries the repository URL, the
\* commit id and the public URL with evaluation_submitted = false, and is not
\* the pipeline-failure response.
C5_NotificationFailureKeepsUrls ==
    (pc = "done" /\ repoName \in remote.pushed /\ pagesResult.enabled
       /\ se.result = "threw") =>
        /\ response.result.repo_url = repoResult.repoUrl
        /\ response.result.commit_sha = repoResult.commitSha
        /\ response.result.pages_url = pagesResult.pagesUrl
        /\ response.result.evaluation_submitted = FALSE
        /\ ~(response.status = 500 /\ response.body = "error")

\* C6: once processAppRequest has terminated, the workspace it created does
\* not exist: neither the directory nor anything below it.
C6_WorkspaceRemoved ==
    (pc \in {"respond", "done"} /\ tempDir # <<>>) =>
        \A q \in disk : ~IsPrefix(tempDir, q)

C6_Witness ==
    /\ pc = "done" /\ pending.kind = "throw" /\ calls.push = 1
    /\ tempDir # <<>> /\ tempDir \notin disk

\* C7: when the create-repository call fails, the run fails with the
\* provisioning error, no commit, push, enable-Pages request or notification
\* POST is made, and the workspace is removed.
C7_CreateFailureAborts ==
    (calls.create = 1 /\ repoName \notin remote.repos) =>
        /\ pc \in {"finally", "respond", "done"}
        /\ pending.kind = "throw"
        /\ Contains(pending.error.message, <<"Failed to create repository (status ">>)
        /\ calls.commit = 0 /\ calls.push = 0 /\ calls.pages = 0 /\ calls.post = 0
        /\ (pc \in {"respond", "done"} => tempDir \notin disk)
        /\ (pc = "done" => response.status = 500)

C7_Witness ==
    pc = "done" /\ calls.create = 1 /\ repoName \notin remote.repos

IsFileMapping(v) ==
    v.t = "object" /\ \A i \in 1..Len(v.entries) : v.entries[i][2].t = "string"
KeysOf(v) == {v.entries[i][1] : i \in 1..Len(v.entries)}
RequiredFiles ==
    {<<"index.html">>, <<"style.css">>, <<"script.js">>, <<"README.md">>, <<"LICENSE">>}
Generated == widx >= 1

\* C8: the generator never makes the run fail: what it returns is a
\* path-to-content mapping (the model's, or the fallback skeleton when the
\* model's answer is none), so the run passes staging and reaches provisioning.
C8_GeneratorNeverFailsRun ==
    Generated =>
        /\ IsFileMapping(appFiles)
        /\ ~(pending.kind = "throw" /\ pending.error.name = "TypeError"
               /\ calls.create = 0)

\* C9: every file set the generator returns is non-empty and holds index.html,
\* style.css, script.js, README.md and LICENSE.
C9_RequiredFilesPresent ==
    Generated => (KeysOf(appFiles) # {} /\ RequiredFiles \subseteq KeysOf(appFiles))

\* C10: when the enable-Pages request is answered 409, deployToPages returns
\* the derived public URL and the run goes on to notification; the 409 is
\* never the run's error.
C10_ConflictIsSuccess ==
    pagesReply = 409 =>
        /\ pagesResult.enabled
        /\ pagesResult.pagesUrl =
              "https://" \o repoResult.ownerLogin \o ".github.io/" \o repoName \o "/"
        /\ (pc = "post" \/ calls.post >= 1)
        /\ ~(pending.kind = "throw" /\ pending.error.name = "HttpError")

C10_Witness ==
    pc = "done" /\ pagesReply = 409 /\ response.status = 200

\* ------------------------------------------------------------ properties, requests

NoCalls ==
    /\ calls.llm = 0 /\ calls.create = 0 /\ calls.commit = 0 /\ calls.push = 0
    /\ calls.pages = 0 /\ calls.post = 0
\* A pipeline run has started: processAppRequest was entered or left a trace.
RunStarted == pc \notin {"idle", "done"} \/ tempDir # <<>> \/ ~NoCalls
ApiRequest == endpoint \in {"/api/", "/api/update"}
RightSecret == rawBody.secret = StrV(ExpectedSecret)
\* The values of round that stand for 1 or 2.
RoundsAccepted == {IntV(1), IntV(2), StrV(<<"1">>), StrV(<<"2">>)}
WellFormedBody ==
    /\ rawBody.email = StrV(<<"a", "@", "b.c">>)
    /\ rawBody.task.t = "string"
    /\ rawBody.round \in RoundsAccepted

\* C11: a round-2 request to /api/update for a task whose round-1 repository
\* exists creates no repository and pushes to that round-1 repository.
C11_UpdateReusesRound1Repo ==
    (endpoint = "/api/update" /\ isUpdate /\ Round1RepoOf(req.task) \in remote.repos) =>
        /\ calls.create = 0
        /\ remote.repos = {Round1RepoOf(req.task)}
        /\ (calls.push > 0 => repoName = Round1RepoOf(req.task))

\* C12: a POST /api/ whose body has no secret is answered 400 and starts no
\* pipeline run.
C12_MissingSecretIs400 ==
    (endpoint = "/api/" /\ rawBody.secret.t = "undefined") =>
        (response.status = 400 /\ ~RunStarted)

\* C13: with STUDENT_SECRET configured, a POST /api/ whose secret is a string
\* other than the configured one, of any length, is answered 401 and starts no
\* pipeline run.
C13_WrongSecretIs401 ==
    (endpoint = "/api/" /\ env.STUDENT_SECRET /\ rawBody.secret.t = "string"
       /\ rawBody.secret.text # ExpectedSecret) =>
        (response.status = 401 /\ ~RunStarted)

\* C14: a POST /api/ with the right secret and a body that fails the schema is
\* answered 400 and starts no pipeline run.
C14_InvalidBodyIs400 ==
    (endpoint = "/api/" /\ env.STUDENT_SECRET /\ RightSecret /\ ~WellFormedBody) =>
        (pc = "done" /\ response.status = 400 /\ ~RunStarted)

C14_Witness ==
    /\ endpoint = "/api/" /\ env.STUDENT_SECRET /\ RightSecret
    /\ rawBody.email = StrV(<<"invalid-email">>) /\ rawBody.round = IntV(1)
    /\ response.status = 400

\* C15: a pipeline run starts only for a request that passed the secret check
\* and the schema; a request whose round is outside {1, 2} is rejected with no
\* workspace, generation or remote call.
C15_RunOnlyAfterChecks ==
    /\ RunStarted =>
          (ApiRequest /\ env.STUDENT_SECRET /\ RightSecret /\ WellFormedBody
             /\ req.round \in {1, 2})
    /\ (ApiRequest /\ rawBody.round \notin RoundsAccepted) =>
          (pc = "done" /\ response.status \in {400, 401, 500} /\ ~RunStarted
             /\ disk = FsEnsureDir({}, DirnameOfModule))

C15_Witness ==
    /\ endpoint = "/api/update" /\ env.STUDENT_SECRET /\ RightSecret
    /\ rawBody.round = IntV(3) /\ rawBody.email = StrV(<<"a", "@", "b.c">>)
    /\ rawBody.task.t = "string" /\ response.status = 400

\* C16: POST /evaluation/ answers 200 to a body that satisfies the evaluation
\* schema and 400 to one that lacks a required field, asks for no secret, and
\* starts no pipeline run and no outbound call.
C16_EvaluationEndpoint ==
    endpoint = "/evaluation/" =>
        /\ pc = "done" /\ ~RunStarted /\ NoCalls
        /\ (rawBody.email.t = "undefined" \/ rawBody.round.t = "undefined"
              \/ rawBody.repo_url.t = "undefined") => response.status = 400
        /\ (/\ rawBody.email = StrV(<<"a", "@", "b.c">>)
            /\ rawBody.round \in RoundsAccepted
            /\ rawBody.repo_url = StrV(<<"https://", "github.com/user/repo">>))
              => response.status = 200

C16_Witness ==
    /\ endpoint = "/evaluation/" /\ ~env.STUDENT_SECRET
    /\ rawBody.repo_url.t = "undefined" /\ rawBody.round = IntV(1)
    /\ rawBody.email = StrV(<<"a", "@", "b.c">>) /\ response.status = 400

\* C17: the response to a failed pipeline run carries 'Internal server error'
\* as its error detail unless NODE_ENV is 'development', where it carries the
\* underlying error's message.
C17_ErrorDetailByMode ==
    (pc = "done" /\ pending.kind = "throw") =>
        /\ response.status = 500
        /\ env.NODE_ENV # "development" =>
              /\ response.error = <<"Internal server error">>
              /\ ~Contains(response.error, pending.error.message)
        /\ env.NODE_ENV = "development" => response.error = pending.error.message

C17_Witness ==
    /\ pc = "done" /\ pending.kind = "throw" /\ env.NODE_ENV = "production"
    /\ pending.error.name = "GitError"

\* C18: the GITHUB_TOKEN is in no file on disk, the workspace's .git/config
\* included.
C18_TokenNeverOnDisk == tokenOnDisk = {}

\* C19: without GITHUB_TOKEN no create-repository call, commit or push is
\* made, and the run fails with the missing-credential error.
C19_MissingTokenFailsFirst ==
    ~env.GITHUB_TOKEN =>
        /\ calls.create = 0 /\ calls.commit = 0 /\ calls.push = 0
        /\ (pending.kind = "throw" /\ widx > Len(appFiles.entries)) =>
              Contains(pending.error.message, <<"GITHUB_TOKEN is not set. ">>)

C21_StagesAtMostOnce ==
    /\ calls.llm <= 1
    /\ calls.create <= 1
    /\ calls.commit <= 1
    /\ calls.push <= 1
    /\ calls.pages <= 1

C21_Witness ==
    /\ pc = "done" /\ calls.post > 1 /\ calls.llm = 1 /\ calls.create = 1
    /\ calls.commit = 1 /\ calls.push = 1 /\ calls.pages = 1
    /\ pagesReply = conflictStatus

\* Position of a stage in processAppRequest.
StageOf(p) ==
    CASE p = "idle" -> 0
      [] p = "ensureDir" -> 1
      [] p = "generate" -> 2
      [] p = "write" -> 3
      [] p = "createRepo" -> 4
      [] p = "gitCommit" -> 5
      [] p = "push" -> 6
      [] p = "pages" -> 7
      [] p \in {"post", "retry"} -> 8
      [] p = "finally" -> 9
      [] p = "respond" -> 10
      [] p = "done" -> 11

\* What a started stage found done by the stages before it.
StagePreconditions ==
    /\ pc \in {"write", "createRepo", "gitCommit", "push", "pages", "post", "retry"}
          => appFiles # UndefinedV
    /\ (pc \in {"createRepo", "gitCommit", "push", "pages", "post", "retry"}
          \/ calls.create > 0)
          => (/\ ~EntriesThrows(appFiles)
              /\ widx > Len(appFiles.entries)
              /\ \/ pc \in {"finally", "respond", "done"}
                 \/ \A i \in 1..Len(appFiles.entries) :
                       PathJoin(tempDir, appFiles.entries[i][1]) \in disk)
    /\ (pc \in {"gitCommit", "push", "pages", "post", "retry"} \/ calls.commit > 0)
          => (calls.create = 1 /\ repoName \in remote.repos)
    /\ (pc \in {"push", "pages", "post", "retry"} \/ calls.push > 0)
          => (calls.commit = 1 /\ commitMsg # "")
    /\ (pc \in {"pages", "post", "retry"} \/ calls.pages > 0)
          => (calls.push = 1 /\ repoName \in remote.pushed
                /\ repoResult # NoRepoResult)
    /\ (pc \in {"post", "retry"} \/ calls.post > 0)
          => (calls.pages = 1 /\ pagesResult.enabled)

\* C22: the stages run in the order generate, write files, create
\* repository, commit, push, enable hosting, notify; a stage starts only from
\* the successful end of the one before it and is not entered again once a
\* later one has begun.
C22_StagesInOrder ==
    /\ []StagePreconditions
    /\ [][/\ StageOf(pc') >= StageOf(pc)
          /\ (StageOf(pc') \in 2..8 /\ StageOf(pc') # StageOf(pc))
                => StageOf(pc) = StageOf(pc') - 1]_vars

C22_Witness == pc = "retry" /\ calls.post = 2 /\ calls.pages = 1

\* A step after the creation of the repository failed.
FailedAfterCreate ==
    /\ pending.kind = "throw"
    /\ calls.create = 1
    /\ calls.post = 0
    /\ ~Contains(pending.error.message, <<"Failed to create repository (status ">>)

\* C23: when the repository was created and the commit, the credential
\* check, the push or the enable-hosting call fails, the run ends as failed,
\* nothing is deleted and the repository still exists afterwards.
C23_NoRollback ==
    /\ calls.delete = 0
    /\ FailedAfterCreate =>
          /\ repoName \in remote.repos
          /\ pc \in {"finally", "respond", "done"}
          /\ pc = "done" => (response.status = 500 /\ response.result = NoResult)

C23_Witness ==
    /\ pc = "done" /\ FailedAfterCreate /\ pending.error.name = "GitError"
    /\ calls.push = 1 /\ repoName \notin remote.pushed

\* C24: when the enable-hosting call fails with a status other than 409 the
\* run aborts there: the error reaches the caller and no notification POST is
\* made.
C24_PagesFailureAborts ==
    (pagesReply \notin {0, 201, conflictStatus}) =>
        /\ calls.post = 0 /\ se = SeInit
        /\ pc \in {"finally", "respond", "done"}
        /\ pending = Thrown(Err("HttpError", <<"pages request failed with status ",
                                               StatusText(pagesReply)>>))
        /\ pc = "done" =>
              /\ response.status = 500
              /\ env.NODE_ENV = "development" => response.error = pending.error.message

C24_Witness ==
    /\ pc = "done" /\ pagesReply = 404 /\ response.status = 500
    /\ env.NODE_ENV = "development"

\* ------------------------------------------------------------ properties, content

\* Paths that exist before any run.
InitialDisk == FsEnsureDir({}, DirnameOfModule)

\* C27: every path created while staging lies inside the run's workspace
\* directory (or is the workspace or one of its parent directories).
C27_WritesInsideWorkspace ==
    tempDir # <<>> =>
        \A p \in disk \ InitialDisk : IsPrefix(tempDir, p) \/ IsPrefix(p, tempDir)

\* C28: all POSTs of one submitEvaluation call carry the same payload and go
\* to the same URL.
C28_SamePayloadEveryAttempt ==
    \A i, j \in 1..Len(se.log) :
        (se.log[i].ev = "post" /\ se.log[j].ev = "post") =>
            /\ se.log[i].payload = se.log[j].payload
            /\ se.log[i].url = se.log[j].url
            /\ se.log[i].url = req.evaluation_url

C28_Witness == pc = "done" /\ calls.post = maxRetries + 1 /\ PostCount(se.log) = calls.post

\* C29: a run for a round-2 submission is in update mode and a run for a
\* round-1 submission in create mode, whichever route received it.
C29_RoundSelectsMode ==
    RunStarted => (isUpdate <=> req.round = 2)

\* C30: the commit of a create run carries the initial message, the commit of
\* an update run the update message.
C30_CommitMessageByMode ==
    calls.commit > 0 =>
        commitMsg = IF isUpdate THEN UpdateCommitMessage ELSE InitialCommitMessage

\* ------------------------------------------------------------ properties, termination

\* C26: when every awaited call settles, a request that was received is
\* eventually answered: the run ends with a result or an error, and the
\* retry loop ends.
C26_RunTerminates == (pc # "idle") ~> (pc = "done")

C26_Witness ==
    /\ pc = "done" /\ se.attempt = maxRetries /\ se.result = "threw"
    /\ response.status = 500 /\ pending.kind = "throw"

\* ------------------------------------------------------------ properties, two runs

\* C25: two runs in progress together have different workspace directories
\* and different repository names, and no step of one reads, overwrites or
\* deletes a file of the other.
C25_RunsIsolated ==
    /\ \A i, j \in RunIds :
          (i # j /\ InProgress(i) /\ InProgress(j)) =>
              /\ crun[i].tempDir # crun[j].tempDir
              /\ crun[i].repoName # crun[j].repoName
    /\ clashes = {}

\* Runs whose names differ do not touch each other's files.
IsolatedWhenNamesDiffer ==
    \A c \in clashes : crun[c.by].repoName = crun[c.of].repoName

\* ------------------------------------------------------------ properties, outcomes

\* C31: submitEvaluation ends by returning an outcome with success = true or
\* by raising an error; it never finishes returning no outcome.
C31_OutcomeOrError ==
    (calls.post > 0 /\ NotifyOver) => se.result \in {"success", "threw"}

\* C32: whenever processAppRequest returns a result, evaluation_submitted in
\* it is true and a notification attempt was answered with status 200; the
\* caller's success response carries that result.
C32_ReturnedMeansSubmitted ==
    /\ pending.kind = "return" =>
          /\ pending.value.evaluation_submitted = TRUE
          /\ se.result = "success"
          /\ Is200(se.last)
          /\ calls.post >= 1
    /\ (ApiRequest /\ pc = "done" /\ response.status = 200) =>
          /\ pending.kind = "return"
          /\ response.result = pending.value
          /\ response.result.evaluation_submitted = TRUE

C32_Witness ==
    /\ pc = "done" /\ response.status = 200
    /\ response.result.evaluation_submitted = TRUE
    /\ se.attempt = maxRetries /\ se.rejected = 0 /\ Is200(se.last)

\* C33: an authorized, schema-valid request to POST /api/update whose round
\* is not 2 is answered 400 and starts no run: no workspace, no remote call.
C33_UpdateRouteNeedsRound2 ==
    (/\ endpoint = "/api/update" /\ env.STUDENT_SECRET /\ RightSecret
     /\ WellFormedBody /\ rawBody.round \notin {IntV(2), StrV(<<"2">>)}) =>
        /\ pc = "done"
        /\ response.status = 400
        /\ ~RunStarted
        /\ disk = InitialDisk
        /\ remote \in {NoRemote} \cup {RemoteAfterRound1(t) : t \in Tasks}

C33_Witness ==
    /\ endpoint = "/api/update" /\ env.STUDENT_SECRET /\ RightSecret
    /\ WellFormedBody /\ rawBody.round = StrV(<<"1">>)
    /\ response.status = 400
    /\ response.error = <<"This endpoint is only for round 2 updates">>

====
